---- MODULE Spec2Model ----
(***************************************************************************)
(* A model of GitHubAnalyzer (src/main.py): the command-line run that      *)
(* fetches commits, pull requests and issues of one repository and prints  *)
(* three summaries, and the pure helpers it is built from.                 *)
(*                                                                         *)
(* Text is modelled as a sequence of one-character strings, so that        *)
(* searching, replacing, splitting, parsing and formatting are computed    *)
(* character by character as the Python code computes them.                *)
(***************************************************************************)
EXTENDS Integers, Sequences, FiniteSets, TLC

VARIABLES
    args,         \* the command line's namespace; in the helper specs, the arguments of the call
    ret,          \* the outcome of the helper under test: a returned value or a raised exception
    pc,           \* the position of the command-line run
    analyzer,     \* the GitHubAnalyzer object's fields
    today,        \* the date datetime.today() reports during the run
    server,       \* the repository as the API serves it: its commits, pulls and issues
    requests,     \* every GET the session has sent, in order
    responses,    \* the status and kind of body of every response received, in order
    page,         \* the local variable page of the running pagination loop
    pulls,        \* the local list pulls of get_pull_requests
    issues,       \* the local list issues of get_issues_by_param
    close_issues, \* the local close_issues of show_issues_info
    output,       \* what has been printed so far
    error         \* the exception that ended the run, if any

vars == <<args, ret, pc, analyzer, today, server, requests, responses, page, pulls,
          issues, close_issues, output, error>>

runVars == <<pc, analyzer, today, server, requests, responses, page, pulls, issues,
             close_issues, output, error>>

-----------------------------------------------------------------------------
(* Values and outcomes *)

None == [kind |-> "None"]

Date(y, m, d) == [kind |-> "date", y |-> y, m |-> m, d |-> d]

Return(v) == [kind |-> "return", value |-> v]

Raise(exc) == [kind |-> "raise", exc |-> exc]

Pending == [kind |-> "pending"]

\* a Python str, held as its sequence of characters
Str(t) == [kind |-> "str", text |-> t]

-----------------------------------------------------------------------------
(* Text *)

DigitChars == <<"0", "1", "2", "3", "4", "5", "6", "7", "8", "9">>

IsDigit(c) == \E i \in 1..10 : DigitChars[i] = c

DigitVal(c) == (CHOOSE i \in 1..10 : DigitChars[i] = c) - 1

\* int() of a text of decimal digits
RECURSIVE IntOf(_)
IntOf(t) ==
    IF Len(t) = 0 THEN 0
    ELSE 10 * IntOf(SubSeq(t, 1, Len(t) - 1)) + DigitVal(t[Len(t)])

\* s[i:i+Len(p)] == p
StartsAt(s, i, p) ==
    /\ i + Len(p) - 1 <= Len(s)
    /\ \A k \in 1..Len(p) : s[i + k - 1] = p[k]

\* str.replace(old, ''): every non-overlapping occurrence, scanning left to right
RECURSIVE Remove(_, _)
Remove(s, old) ==
    IF Len(s) = 0 THEN <<>>
    ELSE IF StartsAt(s, 1, old) THEN Remove(SubSeq(s, Len(old) + 1, Len(s)), old)
    ELSE <<s[1]>> \o Remove(Tail(s), old)

\* str.split(sep) for a one-character separator: empty segments are kept
RECURSIVE Split(_, _)
Split(s, sep) ==
    IF \A i \in 1..Len(s) : s[i] # sep THEN <<s>>
    ELSE LET i == CHOOSE j \in 1..Len(s) :
                      s[j] = sep /\ \A k \in 1..(j - 1) : s[k] # sep
         IN  <<SubSeq(s, 1, i - 1)>> \o Split(SubSeq(s, i + 1, Len(s)), sep)

\* list[:n]
Take(l, n) == SubSeq(l, 1, IF Len(l) < n THEN Len(l) ELSE n)

\* every text over alphabet of length at most n
RECURSIVE TextsUpTo(_, _)
TextsUpTo(alphabet, n) ==
    IF n = 0 THEN {<<>>}
    ELSE LET shorter == TextsUpTo(alphabet, n - 1)
         IN  shorter \cup {<<c>> \o t : c \in alphabet, t \in {u \in shorter : Len(u) = n - 1}}

-----------------------------------------------------------------------------
(* GitHubAnalyzer.get_input_date_by_format *)

\* the regular expression of line 243, tried at position i; every alternative
\* is ten characters long
YearMatches(s, i) ==
    /\ (StartsAt(s, i, <<"1", "9">>) \/ StartsAt(s, i, <<"2", "0">>))
    /\ IsDigit(s[i + 2])
    /\ IsDigit(s[i + 3])

\* (0[1-9]|1[012])-(0[1-9]|[12]\d)
MonthDayAlt1(s, i) ==
    /\ \/ s[i] = "0" /\ s[i + 1] \in {"1", "2", "3", "4", "5", "6", "7", "8", "9"}
       \/ s[i] = "1" /\ s[i + 1] \in {"0", "1", "2"}
    /\ s[i + 2] = "-"
    /\ \/ s[i + 3] = "0" /\ s[i + 4] \in {"1", "2", "3", "4", "5", "6", "7", "8", "9"}
       \/ s[i + 3] \in {"1", "2"} /\ IsDigit(s[i + 4])

\* (0[13-9]|1[012])-30
MonthDayAlt2(s, i) ==
    /\ \/ s[i] = "0" /\ s[i + 1] \in {"1", "3", "4", "5", "6", "7", "8", "9"}
       \/ s[i] = "1" /\ s[i + 1] \in {"0", "1", "2"}
    /\ StartsAt(s, i + 2, <<"-", "3", "0">>)

\* (0[13578]|1[02])-31
MonthDayAlt3(s, i) ==
    /\ \/ s[i] = "0" /\ s[i + 1] \in {"1", "3", "5", "7", "8"}
       \/ s[i] = "1" /\ s[i + 1] \in {"0", "2"}
    /\ StartsAt(s, i + 2, <<"-", "3", "1">>)

MatchAt(s, i) ==
    /\ i + 9 <= Len(s)
    /\ YearMatches(s, i)
    /\ s[i + 4] = "-"
    /\ \/ MonthDayAlt1(s, i + 5)
       \/ MonthDayAlt2(s, i + 5)
       \/ MonthDayAlt3(s, i + 5)

\* regex.search: the leftmost match, as group(0), or None
RegexSearch(s) ==
    IF \E i \in 1..Len(s) : MatchAt(s, i)
    THEN LET i == CHOOSE j \in 1..Len(s) :
                      MatchAt(s, j) /\ \A k \in 1..(j - 1) : ~MatchAt(s, k)
         IN  Str(SubSeq(s, i, i + 9))
    ELSE None

IsLeap(y) == (y % 4 = 0 /\ y % 100 # 0) \/ y % 400 = 0

DaysInMonth(y, m) ==
    IF m = 2 THEN (IF IsLeap(y) THEN 29 ELSE 28)
    ELSE IF m \in {4, 6, 9, 11} THEN 30
    ELSE 31

\* datetime.strptime(text, '%Y-%m-%d') on a text the regular expression matched:
\* the fields are read as numbers and datetime(y, m, d) refuses a day the
\* month does not have
Strptime(t) ==
    LET y == IntOf(SubSeq(t, 1, 4))
        m == IntOf(SubSeq(t, 6, 7))
        d == IntOf(SubSeq(t, 9, 10))
    IN  IF m \in 1..12 /\ d \in 1..DaysInMonth(y, m)
        THEN Return(Date(y, m, d))
        ELSE Raise("ValueError")

get_input_date_by_format(date) ==
    IF date = None THEN Return(None)
    ELSE LET x == RegexSearch(date.text)
         IN  IF x # None THEN Strptime(x.text) ELSE Return(None)

-----------------------------------------------------------------------------
(* datetime comparison and arithmetic *)

\* d1 < d2 on datetimes at midnight
DateLt(d1, d2) ==
    \/ d1.y < d2.y
    \/ d1.y = d2.y /\ d1.m < d2.m
    \/ d1.y = d2.y /\ d1.m = d2.m /\ d1.d < d2.d

\* the comparison functions handed to compare_dates: the two lambdas of the
\* code (d1 < d2, d1 > d2) and two more for the helper on its own
Apply(func, d1, d2) ==
    CASE func = "lt" -> DateLt(d1, d2)
      [] func = "gt" -> DateLt(d2, d1)
      [] func = "le" -> ~DateLt(d2, d1)
      [] func = "ge" -> ~DateLt(d1, d2)

RECURSIVE DaysBeforeMonth(_, _)
DaysBeforeMonth(y, m) ==
    IF m = 1 THEN 0 ELSE DaysBeforeMonth(y, m - 1) + DaysInMonth(y, m - 1)

\* date.toordinal()
ToOrdinal(dt) ==
    LET p == dt.y - 1
    IN  p * 365 + (p \div 4) - (p \div 100) + (p \div 400)
        + DaysBeforeMonth(dt.y, dt.m) + dt.d

\* (datetime.today() - created).days for a created datetime at midnight: the
\* time of day of today() never completes another day
DaysBetween(now, created) == ToOrdinal(now) - ToOrdinal(created)

-----------------------------------------------------------------------------
(* GitHubAnalyzer.compare_dates *)

\* a variant that tests the candidate before the bound
compare_dates_candidate_first(my_date, date, func) ==
    IF date = None THEN [value |-> FALSE, func_calls |-> <<>>]
    ELSE IF my_date = None THEN [value |-> TRUE, func_calls |-> <<>>]
    ELSE [value |-> Apply(func, my_date, date), func_calls |-> <<<<my_date, date>>>>]

\* the value returned and the calls of func made on the way
compare_dates(my_date, date, func) ==
    IF my_date = None THEN [value |-> TRUE, func_calls |-> <<>>]
    ELSE IF date = None THEN [value |-> FALSE, func_calls |-> <<>>]
    ELSE [value |-> Apply(func, my_date, date), func_calls |-> <<<<my_date, date>>>>]

-----------------------------------------------------------------------------
(* GitHubAnalyzer.get_params_by_url *)

HostPart == <<"g", "i", "t", "h", "u", "b", ".", "c", "o", "m", "/">>

SchemePart == <<"h", "t", "t", "p", "s", ":", "/", "/">>

\* a variant that strips the two parts only as one leading prefix
get_params_by_url_whole_prefix(url) ==
    LET params == Take(Split(Remove(url, SchemePart \o HostPart), "/"), 2)
    IN  IF Len(params) # 2 THEN Raise("AnalyseException") ELSE Return(params)

get_params_by_url(url) ==
    LET params == Take(Split(Remove(Remove(url, HostPart), SchemePart), "/"), 2)
    IN  IF Len(params) # 2 THEN Raise("AnalyseException") ELSE Return(params)

-----------------------------------------------------------------------------
(* The window filter shared by get_top_commits and get_pull_requests *)

\* a variant whose bounds are inclusive
InWindowInclusive(start, end, d) ==
    /\ compare_dates(start, d, "le").value
    /\ compare_dates(end, d, "ge").value

\* the lambda of lines 186-192 and 213-219 on an already parsed date:
\* compare_dates(start, d, d1 < d2) and compare_dates(end, d, d1 > d2)
InWindow(start, end, d) ==
    /\ compare_dates(start, d, "lt").value
    /\ compare_dates(end, d, "gt").value

\* a variant that keeps every issue
BeforeEndUnfiltered(end, d) == TRUE

\* the lambda of lines 123-126: compare_dates(end, d, d1 > d2)
BeforeEnd(end, d) == compare_dates(end, d, "gt").value

\* whether parsing the date of some item raises
SomeDateRaises(items) ==
    \E i \in 1..Len(items) : get_input_date_by_format(items[i].date).kind = "raise"

ParsedDate(item) == get_input_date_by_format(item.date).value

-----------------------------------------------------------------------------
(* GitHubAnalyzer.get_top_commits, after the request *)

TopN == 30

\* list.count
Count(l, x) == Cardinality({i \in 1..Len(l) : l[i] = x})

\* the place sorted() gives x among the already sorted: behind every entry
\* whose key -count is not greater (the sort is stable)
RECURSIVE InsertByCount(_, _)
InsertByCount(sorted, x) ==
    IF Len(sorted) = 0 THEN <<x>>
    ELSE IF -sorted[1].count <= -x.count
         THEN <<sorted[1]>> \o InsertByCount(Tail(sorted), x)
         ELSE <<x>> \o sorted

\* sorted(l, key=lambda x: -x['count'])
RECURSIVE SortedByCount(_)
SortedByCount(l) ==
    IF Len(l) = 0 THEN <<>>
    ELSE InsertByCount(SortedByCount(SubSeq(l, 1, Len(l) - 1)), l[Len(l)])

\* the commits the window keeps (lines 185-194)
WindowCommits(start, end, commits) ==
    SelectSeq(commits, LAMBDA c : InWindow(start, end, ParsedDate(c)))

\* a variant that cuts the list to TopN before sorting it
RankAuthorsCutFirst(commits, order) ==
    LET authors == [i \in 1..Len(commits) |-> commits[i].author]
        tallies == [i \in 1..Len(order) |->
                        [name |-> order[i], count |-> Count(authors, order[i])]]
    IN  SortedByCount(Take(tallies, TopN))

\* lines 195-199; order is the order in which set(authors) is iterated
RankAuthors(commits, order) ==
    LET authors == [i \in 1..Len(commits) |-> commits[i].author]
        tallies == [i \in 1..Len(order) |->
                        [name |-> order[i], count |-> Count(authors, order[i])]]
    IN  Take(SortedByCount(tallies), TopN)

\* the authors of the commits the window keeps: set(authors)
AuthorSet(start, end, commits) ==
    IF SomeDateRaises(commits) THEN {}
    ELSE LET kept == WindowCommits(start, end, commits)
         IN  {kept[i].author : i \in 1..Len(kept)}

get_top_commits(start, end, commits, order) ==
    IF SomeDateRaises(commits) THEN Raise("ValueError")
    ELSE Return(RankAuthors(WindowCommits(start, end, commits), order))

\* the orders in which a Python set may be iterated: every order of a set of
\* up to MaxPermuted names, and for a larger one a fixed enumeration, its
\* rotations and their reversals
MaxPermuted == 3

RECURSIVE SetToSeq(_)
SetToSeq(S) ==
    IF S = {} THEN <<>>
    ELSE LET x == CHOOSE y \in S : TRUE
         IN  <<x>> \o SetToSeq(S \ {x})

Reverse(l) == [i \in 1..Len(l) |-> l[Len(l) + 1 - i]]

Rotate(l, k) == [i \in 1..Len(l) |-> l[((i + k - 1) % Len(l)) + 1]]

SetOrders(S) ==
    IF Cardinality(S) <= MaxPermuted
    THEN {f \in [1..Cardinality(S) -> S] : \A i, j \in 1..Cardinality(S) : f[i] = f[j] => i = j}
    ELSE LET base == SetToSeq(S)
         IN  {Rotate(base, k) : k \in 0..(Len(base) - 1)}
             \cup {Reverse(Rotate(base, k)) : k \in 0..(Len(base) - 1)}

-----------------------------------------------------------------------------
(* The HTTP session and GitHubAnalyzer.get_error_or_json *)

\* datetime.strftime('%Y-%m-%d') for a year of four digits
TwoDigits(n) == <<DigitChars[(n \div 10) + 1], DigitChars[(n % 10) + 1]>>

Strftime(dt) ==
    TwoDigits(dt.y \div 100) \o TwoDigits(dt.y % 100) \o <<"-">>
    \o TwoDigits(dt.m) \o <<"-">> \o TwoDigits(dt.d)

\* a response carries a status code and a body that is JSON or is not (an
\* HTML error page of a gateway, an empty body)
OkResponse(items) == [status_code |-> 200, is_json |-> TRUE, json |-> items]

ErrorResponses ==
    {[status_code |-> 404, is_json |-> TRUE, json |-> <<>>],
     [status_code |-> 502, is_json |-> FALSE, json |-> <<>>]}

\* what the server may answer to a request for items
Responses(items) == {OkResponse(items)} \cup ErrorResponses

\* lines 74-81: the message of the exception embeds response.json(), which
\* itself raises when the body is not JSON
get_error_or_json(response) ==
    IF response.status_code # 200
    THEN IF response.is_json THEN Raise("AnalyseException") ELSE Raise("JSONDecodeError")
    ELSE IF response.is_json THEN Return(response.json) ELSE Raise("JSONDecodeError")

\* the GET of a listing: the URL's parts and the Authorization header
Request(resource, params) ==
    [user |-> analyzer.user, rep |-> analyzer.rep, resource |-> resource,
     params |-> params, token |-> analyzer.token]

\* the page of a listing the server answers a request for page p with: the
\* list cut into pages of the server's page size, and nothing behind the last
PageOf(list, p) ==
    SubSeq(list, (p - 1) * server.per_page + 1,
           IF p * server.per_page < Len(list) THEN p * server.per_page ELSE Len(list))

-----------------------------------------------------------------------------
(* The command-line run *)

Exception(exc) == [kind |-> "exception", type |-> exc]

Fail(exc) ==
    /\ pc' = "failed"
    /\ error' = Exception(exc)

\* what the run keeps of a response
Received(response) ==
    Append(responses, [status_code |-> response.status_code, is_json |-> response.is_json])

Banner ==
    [kind |-> "banner", rep |-> analyzer'.rep, user |-> analyzer'.user,
     branch |-> analyzer'.branch,
     start |-> IF analyzer'.start # None THEN Str(Strftime(analyzer'.start)) ELSE None,
     end |-> IF analyzer'.end # None THEN Str(Strftime(analyzer'.end)) ELSE None]

\* lines 249-260 and __init__: the two dates are parsed, then the analyzer is
\* built, which parses the repository reference and prints the banner
Main ==
    /\ pc = "main"
    /\ LET s_date == get_input_date_by_format(args.start)
           e_date == get_input_date_by_format(args.end)
           params == get_params_by_url(args.url.text)
       IN  IF s_date.kind = "raise" THEN
               Fail(s_date.exc) /\ UNCHANGED <<analyzer, output>>
           ELSE IF e_date.kind = "raise" THEN
               Fail(e_date.exc) /\ UNCHANGED <<analyzer, output>>
           ELSE IF params.kind = "raise" THEN
               Fail(params.exc) /\ UNCHANGED <<analyzer, output>>
           ELSE
               /\ analyzer' = [kind |-> "GitHubAnalyzer",
                               user |-> Str(params.value[1]), rep |-> Str(params.value[2]),
                               start |-> s_date.value, end |-> e_date.value,
                               branch |-> args.branch, token |-> args.token]
               /\ output' = <<Banner>>
               /\ pc' = "show_top_commits"
               /\ UNCHANGED error
    /\ UNCHANGED <<args, ret, today, server, requests, responses, page, pulls, issues,
                   close_issues>>

CommitsParams ==
    IF analyzer.branch # None
    THEN [per_page |-> 1000, sha |-> analyzer.branch]
    ELSE [per_page |-> 1000]

\* show_top_commits with get_top_commits: the header is printed, the commits
\* are requested, filtered and ranked, the table is printed
ShowTopCommits ==
    /\ pc = "show_top_commits"
    /\ requests' = Append(requests, Request("commits", CommitsParams))
    /\ \E response \in Responses(server.commits) :
         /\ responses' = Received(response)
         /\ LET commits == get_error_or_json(response)
            IN  IF commits.kind = "raise" THEN
                 /\ Fail(commits.exc)
                 /\ output' = Append(output, [kind |-> "top_header"])
                 /\ UNCHANGED <<page, pulls>>
             ELSE
                 \E order \in SetOrders(AuthorSet(analyzer.start, analyzer.end, commits.value)) :
                     LET top == get_top_commits(analyzer.start, analyzer.end,
                                                commits.value, order)
                     IN  IF top.kind = "raise" THEN
                             /\ Fail(top.exc)
                             /\ output' = Append(output, [kind |-> "top_header"])
                             /\ UNCHANGED <<page, pulls>>
                         ELSE
                             /\ output' = output \o <<[kind |-> "top_header"],
                                                      [kind |-> "top_commits", rows |-> top.value]>>
                             /\ pc' = "show_pr_info"
                             /\ page' = 1
                             /\ pulls' = <<>>
                             /\ UNCHANGED error
    /\ UNCHANGED <<args, ret, analyzer, today, server, issues, close_issues>>

\* the filter of lines 212-221 on a page of pull requests
WindowPulls(start, end, new_pulls) ==
    SelectSeq(new_pulls,
              LAMBDA item : InWindow(start, end, get_input_date_by_format(item.created_at).value))

\* the loop body of lines 222-230: the pulls on another base branch are
\* skipped, the others are appended with their dates parsed
RECURSIVE AppendPulls(_, _, _)
AppendPulls(acc, new_pulls, branch) ==
    IF Len(new_pulls) = 0 THEN acc
    ELSE LET pull == new_pulls[1]
         IN  IF branch # None /\ pull.base_ref # branch
             THEN AppendPulls(acc, Tail(new_pulls), branch)
             ELSE AppendPulls(
                      Append(acc, [number |-> pull.number,
                                   created_at |-> get_input_date_by_format(pull.created_at).value,
                                   closed_at |-> get_input_date_by_format(pull.closed_at).value,
                                   state |-> pull.state]),
                      Tail(new_pulls), branch)

\* a variant that never leaves the current page
SamePage(p) == p

\* page += 1
NextPage(p) == p + 1

PullsParams(p) == [page |-> p, per_page |-> 1000, state |-> Str(<<"a", "l", "l">>)]

OldPullDays == 30

OldIssueDays == 14

\* a variant that counts every pull older than the limit, whatever its state
PrInfoAnyState(all_pulls) ==
    LET closed_pulls_n == Len(SelectSeq(all_pulls, LAMBDA pull : pull.state # "open"))
        old_pulls_n == Len(SelectSeq(all_pulls,
                           LAMBDA pull : DaysBetween(today, pull.created_at) > 30))
    IN  [kind |-> "info", name |-> "PR", open |-> Len(all_pulls) - closed_pulls_n,
         closed |-> closed_pulls_n, old |-> old_pulls_n]

\* lines 94-98: the three numbers show_pr_info hands to print_info
PrInfo(all_pulls) ==
    LET closed_pulls_n == Len(SelectSeq(all_pulls, LAMBDA pull : pull.state # "open"))
        old_pulls_n == Len(SelectSeq(all_pulls,
                           LAMBDA pull : /\ DaysBetween(today, pull.created_at) > OldPullDays
                                         /\ pull.state = "open"))
    IN  [kind |-> "info", name |-> "PR", open |-> Len(all_pulls) - closed_pulls_n,
         closed |-> closed_pulls_n, old |-> old_pulls_n]

\* one turn of the loop of get_pull_requests: the page is requested; an empty
\* page ends the loop, the list is returned and show_pr_info prints its
\* numbers; any other page is filtered and appended and the next page is due
GetPullRequestsPage ==
    /\ pc = "show_pr_info"
    /\ requests' = Append(requests, Request("pulls", PullsParams(page)))
    /\ \E response \in Responses(PageOf(server.pulls, PullsParams(page).page)) :
         /\ responses' = Received(response)
         /\ LET new_pulls == get_error_or_json(response)
            IN  IF new_pulls.kind = "raise" THEN
                 Fail(new_pulls.exc) /\ UNCHANGED <<page, pulls, issues, output>>
             ELSE IF Len(new_pulls.value) = 0 THEN
                 IF \E i \in 1..Len(pulls) : pulls[i].created_at = None
                 THEN Fail("TypeError") /\ UNCHANGED <<page, pulls, issues, output>>
                 ELSE /\ output' = Append(output, PrInfo(pulls))
                      /\ pc' = "closed_issues"
                      /\ page' = 1
                      /\ issues' = <<>>
                      /\ UNCHANGED <<pulls, error>>
             ELSE IF \E i \in 1..Len(new_pulls.value) :
                        \/ get_input_date_by_format(new_pulls.value[i].created_at).kind = "raise"
                        \/ get_input_date_by_format(new_pulls.value[i].closed_at).kind = "raise"
             THEN Fail("ValueError") /\ UNCHANGED <<page, pulls, issues, output>>
             ELSE /\ pulls' = AppendPulls(pulls,
                                          WindowPulls(analyzer.start, analyzer.end, new_pulls.value),
                                          analyzer.branch)
                  /\ page' = NextPage(page)
                  /\ UNCHANGED <<pc, issues, output, error>>
    /\ UNCHANGED <<args, ret, analyzer, today, server, close_issues>>

\* lines 133-135 and 119: the since parameter is there when start is
IssuesParams(param, p) ==
    IF analyzer.start # None
    THEN [since |-> Str(Strftime(analyzer.start)), state |-> param, page |-> p,
          per_page |-> 1000]
    ELSE [state |-> param, page |-> p, per_page |-> 1000]

\* the filter of lines 122-127 on a page of issues
BeforeEndIssues(end, tmp) ==
    SelectSeq(tmp, LAMBDA issue : BeforeEnd(end, get_input_date_by_format(issue.created_at).value))

\* lines 138-144: the three numbers show_issues_info hands to print_info
IssuesInfo(open_issues, closed) ==
    LET all_issues == open_issues \o closed
        close_n == Len(closed)
        old_pulls_n == Len(SelectSeq(open_issues,
                           LAMBDA issue : DaysBetween(today,
                               get_input_date_by_format(issue.created_at).value) > OldIssueDays))
    IN  [kind |-> "info", name |-> "Issues", open |-> Len(all_issues) - close_n,
         closed |-> close_n, old |-> old_pulls_n]

\* one turn of the loop of get_issues_by_param for the closed issues; the
\* empty page returns the list to show_issues_info, which goes on to the open ones
GetClosedIssuesPage ==
    /\ pc = "closed_issues"
    /\ requests' = Append(requests, Request("issues", IssuesParams("closed", page)))
    /\ \E response \in Responses(PageOf(server.closed, IssuesParams("closed", page).page)) :
         /\ responses' = Received(response)
         /\ LET tmp == get_error_or_json(response)
            IN  IF tmp.kind = "raise" THEN
                 Fail(tmp.exc) /\ UNCHANGED <<page, issues, close_issues>>
             ELSE IF Len(tmp.value) = 0 THEN
                 /\ close_issues' = issues
                 /\ issues' = <<>>
                 /\ page' = 1
                 /\ pc' = "open_issues"
                 /\ UNCHANGED error
             ELSE IF \E i \in 1..Len(tmp.value) :
                        get_input_date_by_format(tmp.value[i].created_at).kind = "raise"
             THEN Fail("ValueError") /\ UNCHANGED <<page, issues, close_issues>>
             ELSE /\ issues' = issues \o BeforeEndIssues(analyzer.end, tmp.value)
                  /\ page' = NextPage(page)
                  /\ UNCHANGED <<pc, close_issues, error>>
    /\ UNCHANGED <<args, ret, analyzer, today, server, pulls, output>>

\* one turn of the loop for the open issues; the empty page returns the list
\* and show_issues_info prints its numbers
GetOpenIssuesPage ==
    /\ pc = "open_issues"
    /\ requests' = Append(requests, Request("issues", IssuesParams("open", page)))
    /\ \E response \in Responses(PageOf(server.open, IssuesParams("open", page).page)) :
         /\ responses' = Received(response)
         /\ LET tmp == get_error_or_json(response)
            IN  IF tmp.kind = "raise" THEN
                 Fail(tmp.exc) /\ UNCHANGED <<page, issues, output>>
             ELSE IF Len(tmp.value) = 0 THEN
                 IF \E i \in 1..Len(issues) :
                        get_input_date_by_format(issues[i].created_at).value = None
                 THEN Fail("TypeError") /\ UNCHANGED <<page, issues, output>>
                 ELSE /\ output' = Append(output, IssuesInfo(issues, close_issues))
                      /\ pc' = "done"
                      /\ UNCHANGED <<page, issues, error>>
             ELSE IF \E i \in 1..Len(tmp.value) :
                        get_input_date_by_format(tmp.value[i].created_at).kind = "raise"
             THEN Fail("ValueError") /\ UNCHANGED <<page, issues, output>>
             ELSE /\ issues' = issues \o BeforeEndIssues(analyzer.end, tmp.value)
                  /\ page' = NextPage(page)
                  /\ UNCHANGED <<pc, output, error>>
    /\ UNCHANGED <<args, ret, analyzer, today, server, pulls, close_issues>>

Next ==
    \/ Main
    \/ ShowTopCommits
    \/ GetPullRequestsPage
    \/ GetClosedIssuesPage
    \/ GetOpenIssuesPage

-----------------------------------------------------------------------------
(* The runs checked: command lines and repositories drawn from bounded sets *)

MaxPulls == 3

MaxIssues == 2

MaxPerPage == 2

T_2020_01_01 == <<"2", "0", "2", "0", "-", "0", "1", "-", "0", "1">>

T_2020_01_15 == <<"2", "0", "2", "0", "-", "0", "1", "-", "1", "5">>

T_2020_01_30 == <<"2", "0", "2", "0", "-", "0", "1", "-", "3", "0">>

T_2020_01_31 == <<"2", "0", "2", "0", "-", "0", "1", "-", "3", "1">>

T_2020_02_01 == <<"2", "0", "2", "0", "-", "0", "2", "-", "0", "1">>

T_2020_02_15 == <<"2", "0", "2", "0", "-", "0", "2", "-", "1", "5">>

T_2020_02_16 == <<"2", "0", "2", "0", "-", "0", "2", "-", "1", "6">>

T_2021_01_01 == <<"2", "0", "2", "1", "-", "0", "1", "-", "0", "1">>

T_2021_02_29 == <<"2", "0", "2", "1", "-", "0", "2", "-", "2", "9">>

\* the time part of an ISO 8601 timestamp as the API sends it
TimePart == <<"T", "1", "2", ":", "3", "0", ":", "0", "0", "Z">>

Timestamp(dateText) == Str(dateText \o TimePart)

Master == Str(<<"m", "a", "s", "t", "e", "r">>)

Dev == Str(<<"d", "e", "v">>)

\* the day of the run: 31 days after 2020-01-30, 30 after 2020-01-31, 15
\* after 2020-02-15 and 14 after 2020-02-16
Todays == {Date(2020, 3, 1)}

RECURSIVE SeqsUpTo(_, _)
SeqsUpTo(S, n) ==
    IF n = 0 THEN {<<>>}
    ELSE LET shorter == SeqsUpTo(S, n - 1)
         IN  shorter \cup {<<x>> \o t : x \in S, t \in {u \in shorter : Len(u) = n - 1}}

Commit(author, dateText) == [author |-> Str(author), date |-> Timestamp(dateText)]

Pull(dateText, state, base_ref) ==
    [created_at |-> Timestamp(dateText),
     closed_at |-> IF state = "open" THEN None ELSE Timestamp(T_2020_02_16),
     state |-> state, base_ref |-> base_ref]

\* open and closed pulls 31 and 30 days old, one created on the day the
\* window ends, one on the day it starts, one on another base branch
PullKinds ==
    {Pull(T_2020_01_30, "open", Master), Pull(T_2020_01_31, "open", Master),
     Pull(T_2020_01_30, "closed", Master), Pull(T_2020_02_16, "open", Master),
     Pull(T_2020_01_01, "closed", Master), Pull(T_2020_01_30, "open", Dev)}

\* the pulls of a repository are numbered as they are listed
Numbered(l) ==
    [i \in 1..Len(l) |-> [number |-> i, created_at |-> l[i].created_at,
                          closed_at |-> l[i].closed_at, state |-> l[i].state,
                          base_ref |-> l[i].base_ref]]

Issue(dateText) == [created_at |-> Timestamp(dateText)]

\* issues 60, 15 and 14 days old: the first created on the day the window
\* starts, the last on the day it ends
IssueKinds == {Issue(T_2020_01_01), Issue(T_2020_02_15), Issue(T_2020_02_16)}

Repository(commits, pull_list, closed, open, per_page) ==
    [commits |-> commits, pulls |-> Numbered(pull_list), closed |-> closed,
     open |-> open, per_page |-> per_page]

RunUrls ==
    {SchemePart \o HostPart \o <<"a", "/", "b", "/">>,
     HostPart \o <<"a", "/", "b">>,
     <<"a", "/", "b">>,
     <<"a", " ", "b">>,
     <<"a", "/">>,
     <<"a", "/", "/", "b">>}

Namespace(url, start, end, token) ==
    [url |-> Str(url), start |-> start, end |-> end, branch |-> Master, token |-> token]

\* the command lines: every reference form, a start that is absent, a date,
\* not a date, or a 29th of February of a common year, a token or none
Namespaces ==
    {Namespace(u, s, e, t) :
        u \in RunUrls,
        s \in {None, Str(T_2020_01_01), Str(<<"x">>), Str(T_2021_02_29)},
        e \in {None, Str(T_2020_02_16)},
        t \in {None, Str(<<"k">>)}}

\* the command lines that differ in the window only
WindowNamespaces ==
    {Namespace(<<"a", "/", "b">>, s, e, None) :
        s \in {None, Str(T_2020_01_01)}, e \in {None, Str(T_2020_02_16)}}

OneCommit == <<Commit(<<"A">>, T_2020_01_15)>>

SmallRepositories ==
    {Repository(c, p, i, i, 1) :
        c \in {<<>>, OneCommit},
        p \in SeqsUpTo({Pull(T_2020_01_30, "open", Master)}, 1),
        i \in SeqsUpTo({Issue(T_2020_02_15)}, 1)}

RunStart ==
    /\ ret = Pending
    /\ pc = "main"
    /\ analyzer = None
    /\ today \in Todays
    /\ requests = <<>>
    /\ responses = <<>>
    /\ page = 0
    /\ pulls = <<>>
    /\ issues = <<>>
    /\ close_issues = <<>>
    /\ output = <<>>
    /\ error = None

\* every command line on a small repository
Init ==
    /\ RunStart
    /\ args \in Namespaces
    /\ server \in SmallRepositories

Spec == Init /\ [][Next]_vars

\* every window on repositories of up to MaxPulls pulls, served in pages of
\* up to MaxPerPage
InitPulls ==
    /\ RunStart
    /\ args \in WindowNamespaces
    /\ server \in {Repository(OneCommit, p, <<Issue(T_2020_02_15)>>, <<Issue(T_2020_02_15)>>, n) :
                      p \in SeqsUpTo(PullKinds, MaxPulls), n \in 1..MaxPerPage}

SpecPulls == InitPulls /\ [][Next]_vars

\* repositories of up to MaxPulls pulls served in pages of up to MaxPerPage,
\* with no window and with both bounds; the run is sequential and every call
\* returns, so a step that can be taken is taken
InitPaging ==
    /\ RunStart
    /\ args \in {Namespace(<<"a", "/", "b">>, None, None, None),
                  Namespace(<<"a", "/", "b">>, Str(T_2020_01_01), Str(T_2020_02_16), None)}
    /\ server \in {Repository(OneCommit, p, <<Issue(T_2020_02_15)>>, <<Issue(T_2020_02_15)>>, n) :
                      p \in SeqsUpTo({Pull(T_2020_01_30, "open", Master)}, MaxPulls),
                      n \in 1..MaxPerPage}

SpecPaging == InitPaging /\ [][Next]_vars /\ WF_vars(Next)

\* every window on repositories of up to MaxIssues closed and MaxIssues open issues
InitIssues ==
    /\ RunStart
    /\ args \in WindowNamespaces
    /\ server \in {Repository(OneCommit, <<Pull(T_2020_01_30, "open", Master)>>, c, o, n) :
                      c \in SeqsUpTo(IssueKinds, MaxIssues),
                      o \in SeqsUpTo(IssueKinds, MaxIssues), n \in 1..MaxPerPage}

SpecIssues == InitIssues /\ [][Next]_vars

-----------------------------------------------------------------------------
(* The helpers on their own: one call of a static method on arguments drawn *)
(* from a bounded set, while no command-line run is in progress.            *)

NoRun ==
    /\ pc = "idle"
    /\ analyzer = None
    /\ today = None
    /\ server = None
    /\ requests = <<>>
    /\ responses = <<>>
    /\ page = 0
    /\ pulls = <<>>
    /\ issues = <<>>
    /\ close_issues = <<>>
    /\ output = <<>>
    /\ error = None

\* --- get_input_date_by_format ---

MaxPad == 1

PadAlphabet == {"x", "1", "-"}

Pads == TextsUpTo(PadAlphabet, MaxPad)

CenturyTexts == {<<"1", "2">>, <<"1", "9">>, <<"2", "0">>, <<"2", "1">>}

YearTexts == {<<"0", "0">>, <<"2", "0">>, <<"2", "1">>, <<"3", "4">>}

MonthTexts == {<<"0", "0">>, <<"0", "1">>, <<"0", "2">>, <<"0", "4">>,
               <<"1", "0">>, <<"1", "2">>, <<"1", "3">>, <<"7", "7">>}

DayTexts == {<<"0", "0">>, <<"0", "1">>, <<"1", "0">>, <<"2", "8">>, <<"2", "9">>,
             <<"3", "0">>, <<"3", "1">>, <<"3", "2">>, <<"7", "7">>}

\* texts shaped like a date, right or wrong, with up to MaxPad characters
\* before and after
DateLikeTexts ==
    {pre \o c \o y \o <<"-">> \o m \o <<"-">> \o d \o suf :
        pre \in Pads, c \in CenturyTexts, y \in YearTexts,
        m \in MonthTexts, d \in DayTexts, suf \in Pads}

SampleDateTexts ==
    {<<"2", "0", "2", "0", "-", "1", "0", "-", "1", "0">>,
     <<"2", "0", "1", "9", "-", "0", "4", "-", "3", "0">>,
     <<"1", "2", "3", "4", "-", "1", "0", "-", "1", "0">>,
     <<"2", "0", "2", "0", "-", "7", "7", "-", "1", "0">>}

\* texts holding two date-like parts
TwoDateTexts == {a \o <<" ">> \o b : a \in SampleDateTexts, b \in SampleDateTexts}

DateArgs ==
    {None} \cup {Str(t) : t \in DateLikeTexts \cup TwoDateTexts \cup TextsUpTo(PadAlphabet, 2)}

InitDate ==
    /\ NoRun
    /\ args \in {[date |-> a] : a \in DateArgs}
    /\ ret = Pending

CallGetInputDate ==
    /\ ret = Pending
    /\ ret' = get_input_date_by_format(args.date)
    /\ UNCHANGED <<args, runVars>>

NextDate == CallGetInputDate

SpecDate == InitDate /\ [][NextDate]_vars

\* --- compare_dates ---

SampleDates ==
    {Date(y, m, d) : y \in {2019, 2020}, m \in {2, 10}, d \in {1, 10}}

Comparators == {"lt", "gt", "le", "ge"}

InitCmp ==
    /\ NoRun
    /\ args \in [my_date : SampleDates \cup {None},
                  date : SampleDates \cup {None},
                  func : Comparators]
    /\ ret = Pending

CallCompareDates ==
    /\ ret = Pending
    /\ ret' = Return(compare_dates(args.my_date, args.date, args.func))
    /\ UNCHANGED <<args, runVars>>

NextCmp == CallCompareDates

SpecCmp == InitCmp /\ [][NextCmp]_vars

\* --- get_params_by_url ---

MaxNameLen == 2

MaxUrlBody == 4

NameAlphabet == {"a", "b", "-"}

RepoNames == TextsUpTo(NameAlphabet, MaxNameLen) \ {<<>>}

\* the three forms of a repository reference
UrlForm(form, owner, name) ==
    CASE form = "full" -> SchemePart \o HostPart \o owner \o <<"/">> \o name
      [] form = "host" -> HostPart \o owner \o <<"/">> \o name
      [] form = "bare" -> owner \o <<"/">> \o name

FormArgs ==
    {[url |-> UrlForm(f, o, n), form |-> f, owner |-> Str(o), name |-> Str(n)] :
        f \in {"full", "host", "bare"}, o \in RepoNames, n \in RepoNames}

UrlPrefixes == {<<>>, SchemePart, HostPart, SchemePart \o HostPart}

\* free-form input: any short text over a, b and /, bare or behind a prefix
FreeArgs ==
    {[url |-> p \o b, form |-> "free", owner |-> None, name |-> None] :
        p \in UrlPrefixes, b \in TextsUpTo({"a", "b", "/"}, MaxUrlBody)}

InitUrl ==
    /\ NoRun
    /\ args \in FormArgs \cup FreeArgs
    /\ ret = Pending

CallGetParamsByUrl ==
    /\ ret = Pending
    /\ ret' = get_params_by_url(args.url)
    /\ UNCHANGED <<args, runVars>>

NextUrl == CallGetParamsByUrl

SpecUrl == InitUrl /\ [][NextUrl]_vars

\* --- get_top_commits ---

MaxCommits == 3

MaxExtraAuthors == 2

SmallAuthors == {<<"A">>, <<"B">>, <<"C">>}

SmallCommits ==
    {Commit(a, d) : a \in SmallAuthors, d \in {T_2020_01_01, T_2020_01_15, T_2020_02_01}}

\* n copies of x
Repeat(x, n) == [i \in 1..n |-> x]

\* the fixture of the end-to-end scenario: A five times, B three times, C five
\* times inside the window, and one commit of D on 2021-01-01
ScenarioCommits ==
    Repeat(Commit(<<"A">>, T_2020_01_15), 5) \o Repeat(Commit(<<"B">>, T_2020_01_15), 3)
    \o <<Commit(<<"D">>, T_2021_01_01)>> \o Repeat(Commit(<<"C">>, T_2020_01_15), 5)

UserName(i) == <<"u", DigitChars[(i \div 10) + 1], DigitChars[(i % 10) + 1]>>

\* n authors, author i with 1 + i % 3 commits inside the window
RECURSIVE ManyCommits(_)
ManyCommits(n) ==
    IF n = 0 THEN <<>>
    ELSE ManyCommits(n - 1) \o Repeat(Commit(UserName(n), T_2020_01_15), 1 + (n % 3))

WindowBounds(dateText) == {None, get_input_date_by_format(Str(dateText)).value}

TopArgs ==
    {[commits |-> c, start |-> s, end |-> e] :
        c \in SeqsUpTo(SmallCommits, MaxCommits)
              \cup {ScenarioCommits}
              \cup {ManyCommits(n) : n \in (TopN - 1)..(TopN + MaxExtraAuthors)},
        s \in WindowBounds(T_2020_01_01),
        e \in WindowBounds(T_2020_02_01)}

InitTop ==
    /\ NoRun
    /\ args \in TopArgs
    /\ ret = Pending

CallGetTopCommits ==
    /\ ret = Pending
    /\ \E order \in SetOrders(AuthorSet(args.start, args.end, args.commits)) :
           ret' = get_top_commits(args.start, args.end, args.commits, order)
    /\ UNCHANGED <<args, runVars>>

NextTop == CallGetTopCommits

SpecTop == InitTop /\ [][NextTop]_vars

-----------------------------------------------------------------------------
(* Properties of the helpers *)

\* the calendar date an API timestamp or a command-line text starts with, read
\* field by field, as a day number
DayNumberOfText(t) ==
    ToOrdinal([y |-> IntOf(SubSeq(t, 1, 4)), m |-> IntOf(SubSeq(t, 6, 7)),
               d |-> IntOf(SubSeq(t, 9, 10))])

\* start < d and end > d, each bound only when present
StrictlyInside(start, end, dateText) ==
    /\ start = None \/ ToOrdinal(start) < DayNumberOfText(dateText)
    /\ end = None \/ ToOrdinal(end) > DayNumberOfText(dateText)

\* the number of commits of author a whose date is strictly inside the window
InsideTally(a) ==
    Cardinality({i \in 1..Len(args.commits) :
        /\ args.commits[i].author = a
        /\ StrictlyInside(args.start, args.end, args.commits[i].date.text)})

AllAuthors == {args.commits[i].author : i \in 1..Len(args.commits)}

RankedNames == {ret.value[i].name : i \in 1..Len(ret.value)}

\* C3: get_top_commits returns at most 30 entries with pairwise distinct
\* names, counts non-increasing from first to last, and no author left out
\* has a count strictly greater than an author included.
C3_TopThirtySorted ==
    ret.kind = "return" =>
        /\ Len(ret.value) <= 30
        /\ \A i, j \in 1..Len(ret.value) :
               /\ ret.value[i].name = ret.value[j].name => i = j
               /\ i < j => ret.value[i].count >= ret.value[j].count
        /\ \A a \in AllAuthors \ RankedNames :
               \A i \in 1..Len(ret.value) : InsideTally(a) <= ret.value[i].count

\* more than 30 authors have commits inside the window and 30 are returned
C3_Witness ==
    /\ ret.kind = "return"
    /\ Len(ret.value) = 30
    /\ Cardinality({a \in AllAuthors : InsideTally(a) > 0}) > 30
    /\ ret.value[1].count > ret.value[30].count

\* C4: a commit counts if and only if its committer date is strictly inside
\* the window; each entry's count is the number of such commits with exactly
\* that name (at least 1); an author with no commit inside the window does
\* not appear; the scenario A:5, B:3, C:5, D outside yields counts 5, 5, 3.
C4_CountsOnlyInsideWindow ==
    ret.kind = "return" =>
        /\ \A i \in 1..Len(ret.value) :
               /\ ret.value[i].count = InsideTally(ret.value[i].name)
               /\ ret.value[i].count >= 1
        /\ \A a \in AllAuthors :
               /\ InsideTally(a) = 0 => a \notin RankedNames
               /\ InsideTally(a) > 0 /\ Len(ret.value) < 30 => a \in RankedNames
        /\ (args.commits = ScenarioCommits /\ args.start # None /\ args.end # None) =>
               /\ [i \in 1..Len(ret.value) |-> ret.value[i].count] = <<5, 5, 3>>
               /\ RankedNames = {Str(<<"A">>), Str(<<"B">>), Str(<<"C">>)}

\* the scenario's ranking has been computed, with a commit outside the window
\* left out
C4_Witness ==
    /\ args.commits = ScenarioCommits
    /\ args.start # None
    /\ args.end # None
    /\ ret.kind = "return"
    /\ Len(ret.value) = 3
    /\ Str(<<"D">>) \notin RankedNames

\* the pattern YYYY-MM-DD at position i of text t: four digits giving a year
\* in 1900..2099, a month in 01..12 and a day the 30/31-day rules allow
\* (February up to 29 in every year)
PatternDaysOfMonth(m) ==
    IF m = 2 THEN 29 ELSE IF m \in {4, 6, 9, 11} THEN 30 ELSE 31

PatternDateAt(t, i) ==
    /\ i + 9 <= Len(t)
    /\ \A k \in {0, 1, 2, 3, 5, 6, 8, 9} : IsDigit(t[i + k])
    /\ t[i + 4] = "-"
    /\ t[i + 7] = "-"
    /\ IntOf(SubSeq(t, i, i + 3)) \in 1900..2099
    /\ IntOf(SubSeq(t, i + 5, i + 6)) \in 1..12
    /\ IntOf(SubSeq(t, i + 8, i + 9)) \in 1..PatternDaysOfMonth(IntOf(SubSeq(t, i + 5, i + 6)))

FirstPatternDate(t) ==
    LET i == CHOOSE j \in 1..Len(t) :
                 PatternDateAt(t, j) /\ \A k \in 1..(j - 1) : ~PatternDateAt(t, k)
    IN  Date(IntOf(SubSeq(t, i, i + 3)), IntOf(SubSeq(t, i + 5, i + 6)),
             IntOf(SubSeq(t, i + 8, i + 9)))

\* C7: for every input string get_input_date_by_format never raises: it
\* returns the date of the first substring matching the pattern when there is
\* one, and None when there is none.
C7_ParseNeverRaises ==
    (ret # Pending /\ args.date # None) =>
        IF \E i \in 1..Len(args.date.text) : PatternDateAt(args.date.text, i)
        THEN ret = Return(FirstPatternDate(args.date.text))
        ELSE ret = Return(None)

\* C8: compare_dates is true when the bound is absent (also when the
\* candidate is absent too), false when the bound is present and the
\* candidate absent, and the comparator's value when both are present; the
\* comparator is not evaluated when either is absent.
C8_CompareDates ==
    ret # Pending =>
        /\ args.my_date = None => ret.value.value = TRUE
        /\ (args.my_date # None /\ args.date = None) => ret.value.value = FALSE
        /\ (args.my_date # None /\ args.date # None) =>
               /\ ret.value.value = Apply(args.func, args.my_date, args.date)
               /\ ret.value.func_calls = <<<<args.my_date, args.date>>>>
        /\ (args.my_date = None \/ args.date = None) => ret.value.func_calls = <<>>

\* bound and candidate both absent: true, and the comparator was not called
C8_Witness ==
    /\ args.my_date = None
    /\ args.date = None
    /\ ret = Return([value |-> TRUE, func_calls |-> <<>>])

\* C9: the forms https://github.com/owner/name, github.com/owner/name and
\* owner/name all give the pair [owner, name].
C9_ThreeFormsAgree ==
    (ret # Pending /\ args.form \in {"full", "host", "bare"}) =>
        ret = Return(<<args.owner.text, args.name.text>>)

\* the bare host form has given the pair
C9_Witness ==
    /\ args.form = "host"
    /\ args.url = HostPart \o <<"a", "b", "/", "b">>
    /\ ret = Return(<<<<"a", "b">>, <<"b">>>>)

-----------------------------------------------------------------------------
(* Properties of the run *)

Summaries == {i \in 1..Len(output) : output[i].kind \in {"top_commits", "info"}}

\* the place of a request's operation in the run
OperationOf(request) ==
    CASE request.resource = "commits" -> 1
      [] request.resource = "pulls" -> 2
      [] request.resource = "issues" -> 3

\* C1: a response with a non-2xx status ends the run at that call with the
\* typed request error (AnalyseException); no later request is sent and the
\* operation in progress prints no summary.
C1_FailedRequestAbortsTyped ==
    \A i \in 1..Len(responses) :
        responses[i].status_code \notin 200..299 =>
            /\ pc = "failed"
            /\ error = Exception("AnalyseException")
            /\ i = Len(responses)
            /\ Len(requests) = i
            /\ Cardinality(Summaries) = OperationOf(requests[i]) - 1

PullRequestsSent == SelectSeq(requests, LAMBDA r : r.resource = "pulls")

\* the requests for pull-request pages that were answered with a page
AnsweredPulls ==
    {i \in 1..Len(responses) :
        /\ requests[i].resource = "pulls"
        /\ responses[i].status_code = 200
        /\ responses[i].is_json}

PullsOrdered ==
    /\ \A k \in 1..Len(PullRequestsSent) : PullRequestsSent[k].params.page = k
    /\ \A i \in AnsweredPulls :
           PageOf(server.pulls, requests[i].params.page) = <<>> =>
               /\ pc # "show_pr_info"
               /\ \A j \in (i + 1)..Len(requests) : requests[j].resource # "pulls"
    /\ \A i \in AnsweredPulls :
           PageOf(server.pulls, requests[i].params.page) # <<>> =>
               \/ pc \in {"show_pr_info", "failed"}
               \/ \E j \in (i + 1)..Len(requests) : requests[j].resource = "pulls"

\* C2: get_pull_requests requests pages 1, 2, 3, ... in increasing order, one
\* request per page, stops at the first empty page (no further page is
\* requested and the operation returns) and not before, and terminates
\* whatever the sizes of the pages before the empty one.
C2_PullPagesInOrderUntilEmpty ==
    /\ [][PullsOrdered']_vars
    /\ (pc = "show_pr_info") ~> (pc # "show_pr_info")

\* three pages of one pull each were read, then the empty page ended the loop
C2_Witness ==
    /\ pc = "done"
    /\ Len(server.pulls) = 3
    /\ server.per_page = 1
    /\ Len(PullRequestsSent) = 4

\* the pulls of the repository the run accumulates: created strictly inside
\* the window, on the branch of the run
Accumulated ==
    {k \in 1..Len(server.pulls) :
        /\ StrictlyInside(analyzer.start, analyzer.end, server.pulls[k].created_at.text)
        /\ server.pulls[k].base_ref = analyzer.branch}

NotOpenPulls == {k \in Accumulated : server.pulls[k].state # "open"}

OldOpenPulls ==
    {k \in Accumulated :
        /\ server.pulls[k].state = "open"
        /\ ToOrdinal(today) - DayNumberOfText(server.pulls[k].created_at.text) > 30}

\* C5: the three numbers show_pr_info reports over the accumulated records:
\* closed counts the records whose state is not open, open = total - closed,
\* old counts the open records more than 30 days old; so 0 <= old <= open
\* and a closed record is never old.
C5_PrInfoCounts ==
    \A i \in 1..Len(output) :
        (output[i].kind = "info" /\ output[i].name = "PR") =>
            /\ {pulls[k].number : k \in 1..Len(pulls)} = Accumulated
            /\ Len(pulls) = Cardinality(Accumulated)
            /\ output[i].closed = Cardinality(NotOpenPulls)
            /\ output[i].open = Cardinality(Accumulated) - output[i].closed
            /\ output[i].open + output[i].closed = Len(pulls)
            /\ output[i].old = Cardinality(OldOpenPulls)
            /\ 0 <= output[i].old
            /\ output[i].old <= output[i].open

\* no window bound: an old open pull, a recent open pull and an old closed one
C5_Witness ==
    /\ analyzer # None
    /\ analyzer.start = None
    /\ analyzer.end = None
    /\ \E k \in 1..Len(pulls) :
           pulls[k].state # "open" /\ DaysBetween(today, pulls[k].created_at) > 30
    /\ \E i \in 1..Len(output) :
           /\ output[i].kind = "info"
           /\ output[i].name = "PR"
           /\ output[i].open = 2
           /\ output[i].closed = 1
           /\ output[i].old = 1

IssuesLines == {i \in 1..Len(output) : output[i].kind = "info" /\ output[i].name = "Issues"}

IssueRequests == {i \in 1..Len(requests) : requests[i].resource = "issues"}

\* since is sent exactly when the window has a start, and is that start
SinceIffStart ==
    \A i \in IssueRequests :
        /\ ("since" \in DOMAIN requests[i].params) <=> (analyzer.start # None)
        /\ analyzer.start # None => requests[i].params.since = args.start

\* the issues of a listing created strictly before the end, when there is one
CreatedBeforeEnd(list) ==
    {k \in 1..Len(list) :
        analyzer.end = None
        \/ DayNumberOfText(list[k].created_at.text) < ToOrdinal(analyzer.end)}

\* C6 as claimed: the end of the window is never applied to the issues, every
\* issue the server returns as closed is counted closed and every one it
\* returns as open is counted open; since is sent if and only if the window
\* has a start.
C6_EndNeverApplied ==
    /\ SinceIffStart
    /\ \A i \in IssuesLines :
           /\ output[i].closed = Len(server.closed)
           /\ output[i].open = Len(server.open)

\* C6 as amended: the end of the window is applied client-side, an issue the
\* server returns is counted exactly when the window has no end or the issue
\* was created strictly before it; the start is applied by the server only,
\* through since, sent if and only if the window has a start.
C6_EndAppliedStartServerSide ==
    /\ SinceIffStart
    /\ \A i \in IssuesLines :
           /\ output[i].closed = Cardinality(CreatedBeforeEnd(server.closed))
           /\ output[i].open = Cardinality(CreatedBeforeEnd(server.open))
           /\ Len(close_issues) = output[i].closed
           /\ Len(issues) = output[i].open

\* a window with both bounds; a closed issue created on the day it ends is
\* left out and one created on the day it starts is counted
C6_Witness ==
    /\ pc = "done"
    /\ analyzer.start # None
    /\ analyzer.end # None
    /\ server.closed = <<Issue(T_2020_02_16), Issue(T_2020_01_01)>>
    /\ \E i \in IssuesLines : output[i].closed = 1

\* the reference without a leading https:// and github.com/
StripPrefix(t, prefix) ==
    IF StartsAt(t, 1, prefix) THEN SubSeq(t, Len(prefix) + 1, Len(t)) ELSE t

NonEmptySegments(url) ==
    SelectSeq(Split(StripPrefix(StripPrefix(url, SchemePart), HostPart), "/"),
              LAMBDA segment : Len(segment) > 0)

\* C10: the owner and the name are the first two non-empty segments of the
\* reference without its host prefixes; with fewer than two of them the
\* reference is refused with AnalyseException, the analyzer is not built and
\* no request is sent.
C10_TwoNonEmptySegmentsOrRefused ==
    (pc # "main" /\ error # Exception("ValueError")) =>
        IF Len(NonEmptySegments(args.url.text)) < 2
        THEN /\ error = Exception("AnalyseException")
             /\ analyzer = None
             /\ requests = <<>>
        ELSE /\ analyzer # None
             /\ analyzer.user = Str(NonEmptySegments(args.url.text)[1])
             /\ analyzer.rep = Str(NonEmptySegments(args.url.text)[2])

====
